---- MODULE Spec2Model ----
(***************************************************************************)
(* A model of the TFTP client of src/tftp.py: the packet codec, the error  *)
(* translation, the option negotiator, the read and write state machines   *)
(* and the retry engine txrx.                                              *)
(*                                                                         *)
(* Bytes are integers 0..255 and a byte string is a sequence of them; text *)
(* is the sequence of its ASCII codes.  A decoded packet is a record with  *)
(* exactly the keys parse_pkt gives it.  Time is counted in ticks,         *)
(* TicksPerSec to the second.  A blocking wait that runs to the end of its *)
(* window (a timed-out recvfrom, a sleep) returns strictly after the       *)
(* window's end, between 1 and MaxLate ticks late; a datagram is delivered *)
(* within the window.                                                      *)
(***************************************************************************)
EXTENDS Integers, Sequences, FiniteSets, TLC

\* ------------------------------------------------------------------ bounds
TicksPerSec == 4
MaxLate == 1
MaxBlock == 2

\* ------------------------------------------------------------------ codes
RRQ == 1
WRQ == 2
DATA == 3
ACK == 4
ERR == 5
OACK == 6

CUSTOM == 0
FILE_NOT_FOUND == 1
ACCESS_VIOLATION == 2
DISK_FULL == 3
ILLEGAL_OPERATION == 4
UNKNOWN_TID == 5
FILE_ALREADY_EXISTS == 6
NO_SUCH_USER == 7
NO_OPTIONS_ERROR == 8

\* ------------------------------------------------------------------ text
\* ASCII codes of the literals of the source
Txt_octet == <<111, 99, 116, 101, 116>>
Txt_blksize == <<98, 108, 107, 115, 105, 122, 101>>
Txt_timeout == <<116, 105, 109, 101, 111, 117, 116>>

Min(a, b) == IF a < b THEN a ELSE b
Max(a, b) == IF a > b THEN a ELSE b

\* the digits of a natural number, most significant first
RECURSIVE Digits(_)
Digits(n) == IF n < 10 THEN <<48 + n>> ELSE Digits(n \div 10) \o <<48 + (n % 10)>>

\* str(n) of an int
Str(n) == IF n < 0 THEN <<45>> \o Digits(-n) ELSE Digits(n)

IsSpace(c) == c \in {9, 10, 11, 12, 13, 28, 29, 30, 31, 32}
IsDigit(c) == c >= 48 /\ c <= 57

RECURSIVE LStrip(_)
LStrip(s) == IF s # <<>> /\ IsSpace(Head(s)) THEN LStrip(Tail(s)) ELSE s

RECURSIVE RStrip(_)
RStrip(s) ==
    IF s # <<>> /\ IsSpace(s[Len(s)]) THEN RStrip(SubSeq(s, 1, Len(s) - 1)) ELSE s

\* str.strip()
Strip(s) == LStrip(RStrip(s))

\* str.rstrip('\0')
RECURSIVE RStripNul(_)
RStripNul(s) ==
    IF s # <<>> /\ s[Len(s)] = 0 THEN RStripNul(SubSeq(s, 1, Len(s) - 1)) ELSE s

\* str.lower()
Lower(s) == [i \in 1..Len(s) |-> IF s[i] >= 65 /\ s[i] <= 90 THEN s[i] + 32 ELSE s[i]]

\* str(b, 'ascii') succeeds
IsAscii(s) == \A i \in 1..Len(s) : s[i] < 128

\* str.split('\0')
RECURSIVE SplitNul(_, _)
SplitNul(s, cur) ==
    IF s = <<>> THEN <<cur>>
    ELSE IF Head(s) = 0 THEN <<cur>> \o SplitNul(Tail(s), <<>>)
    ELSE SplitNul(Tail(s), Append(cur, Head(s)))

\* the value of a run of digits and underscores, underscores skipped
RECURSIVE DigitsValue(_, _)
DigitsValue(s, acc) ==
    IF s = <<>> THEN acc
    ELSE IF Head(s) = 95 THEN DigitsValue(Tail(s), acc)
    ELSE DigitsValue(Tail(s), 10 * acc + (Head(s) - 48))

\* a literal int() accepts after the sign: digits, single underscores between them
IsIntBody(s) ==
    /\ s # <<>>
    /\ IsDigit(s[1]) /\ IsDigit(s[Len(s)])
    /\ \A i \in 1..Len(s) : IsDigit(s[i]) \/ s[i] = 95
    /\ \A i \in 1..(Len(s) - 1) : ~(s[i] = 95 /\ s[i + 1] = 95)

\* int(s) of a str: [ok |-> FALSE] stands for ValueError
int(s) ==
    LET t == Strip(s)
        signed == t # <<>> /\ t[1] \in {43, 45}
        body == IF signed THEN Tail(t) ELSE t
    IN  IF IsIntBody(body)
        THEN [ok |-> TRUE,
              val |-> IF signed /\ t[1] = 45 THEN 0 - DigitsValue(body, 0)
                      ELSE DigitsValue(body, 0)]
        ELSE [ok |-> FALSE, val |-> 0]

\* ------------------------------------------------------------------ codec
\* struct.pack('! H', n): two bytes, big endian; struct.error outside 0..65535
CanPackH(n) == n >= 0 /\ n <= 65535
PackH(n) == <<n \div 256, n % 256>>

\* struct.unpack_from('! H', src, off): struct.error when the bytes are missing
CanUnpackH(src, off) == Len(src) >= off + 2
UnpackH(src, off) == src[off + 1] * 256 + src[off + 2]

\* src[n:]
From(src, n) == SubSeq(src, n + 1, Len(src))

cstr(s) == s \o <<0>>

create_data_pkt(blocknum, data) == PackH(DATA) \o PackH(blocknum) \o data

create_ack_pkt(acknum) == PackH(ACK) \o PackH(acknum)

\* options: a sequence of <<key, value>> pairs, in the dict's insertion order
RECURSIVE JoinOptions(_)
JoinOptions(options) ==
    IF options = <<>> THEN <<>>
    ELSE cstr(Head(options)[1]) \o cstr(Head(options)[2]) \o JoinOptions(Tail(options))

create_rq_pkt(filename, op, options) ==
    PackH(op) \o cstr(filename) \o cstr(Txt_octet) \o JoinOptions(options)

create_wrq_pkt(filename, blocksize, timeout) ==
    create_rq_pkt(filename, WRQ,
                  << <<Txt_blksize, Str(blocksize)>>, <<Txt_timeout, Str(timeout)>> >>)

create_rrq_pkt(filename, blocksize, timeout) ==
    create_rq_pkt(filename, RRQ,
                  << <<Txt_blksize, Str(blocksize)>>, <<Txt_timeout, Str(timeout)>> >>)

\* the dict {k.lower(): v for k, v in zip(words[0::2], words[1::2])}: a function
\* from the keys to their values, a later pair replacing an earlier one
PairCount(words) == Len(words) \div 2
OptionKeys(words) == {Lower(words[2 * i - 1]) : i \in 1..PairCount(words)}
LastPair(words, k) ==
    CHOOSE i \in 1..PairCount(words) :
        /\ Lower(words[2 * i - 1]) = k
        /\ \A j \in 1..PairCount(words) : Lower(words[2 * j - 1]) = k => j <= i

parse_options(src) ==
    LET words == SplitNul(Strip(src), <<>>)
    IN  [k \in OptionKeys(words) |-> words[2 * LastPair(words, k)]]

\* what parse_pkt gives when it raises (struct.error, UnicodeDecodeError)
ParseError == [op |-> -1]

parse_pkt(src) ==
    IF ~CanUnpackH(src, 0) THEN ParseError
    ELSE LET op == UnpackH(src, 0) IN
        IF op = DATA THEN
            IF ~CanUnpackH(src, 2) THEN ParseError
            ELSE [op |-> DATA, blocknum |-> UnpackH(src, 2), data |-> From(src, 4)]
        ELSE IF op = ACK THEN
            IF ~CanUnpackH(src, 2) THEN ParseError
            ELSE [op |-> ACK, acknum |-> UnpackH(src, 2)]
        ELSE IF op = ERR THEN
            IF ~CanUnpackH(src, 2) \/ ~IsAscii(From(src, 4)) THEN ParseError
            ELSE [op |-> ERR, errcode |-> UnpackH(src, 2), msg |-> RStripNul(From(src, 4))]
        ELSE IF op = OACK THEN
            IF ~IsAscii(From(src, 2)) THEN ParseError
            ELSE [op |-> OACK, options |-> parse_options(From(src, 2))]
        ELSE [op |-> op]

\* ------------------------------------------------------------------ failures
\* an exception: its class, the text it is built with, and for a translated
\* server error the raw code (-1 when it carries none) and the message
Exc(cls, what, errcode, msg) == [cls |-> cls, what |-> what, errcode |-> errcode, msg |-> msg]
NoExc == Exc("", "", -1, <<>>)

\* the classes of src/tftp.py lines 31-47
ClientErrors ==
    {"TFTPClientError", "TFTPClientCustomError", "TFTPClientFileNotFoundError",
     "TFTPClientAccessViolationError", "TFTPClientDiskFullError",
     "TFTPClientIllegalOperationError"}

\* what a reply predicate does: raise, return the packet, or return None
Raise(e) == [t |-> "raise", exc |-> e]
Return(rx) == [t |-> "return", resp |-> rx]
ReturnNone == [t |-> "none"]
\* a helper that returned without raising
Pass == [t |-> "pass"]

\* ------------------------------------------------------------------ state
VARIABLES
    cfg,        \* the constructor's arguments: ip, connect_port, def_timeout,
                \* connect_timeout, session_timeout, def_blocksize
    pc,         \* "idle", "tx" (top of txrx's loop), "rx" (in recvfrom), "done", "failed"
    call,       \* "read" or "write": the call in progress
    filename,   \* the call's filename
    input,      \* write's buf argument as given
    blocknum,   \* self.blocknum
    blocksize,  \* self.blocksize
    timeout,    \* self.timeout, seconds
    port,       \* self.port
    peer,       \* the address the socket is connected to, None before connect()
    buf,        \* read: the bytes accumulated; write: the bytes still to send
    chunk,      \* write: the chunk of the Data packet being sent
    tx,         \* txrx: the outbound packet
    handle_rx,  \* txrx: the name of the reply predicate
    deadline,   \* txrx: the timeout argument, seconds
    now,        \* the clock, in ticks since txrx read start
    rxstart,    \* txrx: the clock when recvfrom was entered
    txcount,    \* the number of sendto calls of the current txrx
    woke,       \* how the last recvfrom ended: "none" (txrx has not waited yet),
                \* "timeout", "rejected" (datagram passed over), "raised", "returned"
    rx,         \* the last datagram decoded
    remote,     \* the source address of the last datagram
    lastSent,   \* the last packet sent and its destination
    sentData,   \* write: the chunks of the Data blocks sent, in block order
    accepted,   \* read: the Data packets accepted, in order
    result,     \* read: the buffer returned
    exc,        \* the exception the call raised
    queued,     \* TRUE from connect() to the next recvfrom: the socket's queue may
                \* still hold a datagram that reached it before it was connected
    phase       \* ticks from the start of the data phase to the start of the txrx
                \* in progress, every reply before it taken as arriving the instant
                \* its request was last sent: the least the phase can have lasted,
                \* counted no further than one tick past the session deadline

vars == <<cfg, pc, call, filename, input, blocknum, blocksize, timeout, port, peer,
          buf, chunk, tx, handle_rx, deadline, now, rxstart, txcount, woke, rx,
          remote, lastSent, sentData, accepted, result, exc, queued, phase>>

self == <<blocknum, blocksize, timeout, port, peer>>
txrxvars == <<tx, handle_rx, deadline, now, rxstart, txcount>>

None == <<>>
NoPkt == [op |-> -2]
start == 0

\* ------------------------------------------------------------------ handlers
\* process_err letting the not-found code through
process_err_skip(r) ==
    IF r.op = ERR /\ r.errcode # FILE_NOT_FOUND THEN
        Raise(Exc("TFTPClientError", "Server error", r.errcode, r.msg))
    ELSE Pass

\* process_err raising the access-violation kind for the disk-full code
process_err_swap(r) ==
    IF r.op = ERR THEN
        IF r.errcode = ACCESS_VIOLATION \/ r.errcode = DISK_FULL THEN
            Raise(Exc("TFTPClientAccessViolationError", "", -1, r.msg))
        ELSE IF r.errcode = CUSTOM THEN
            Raise(Exc("TFTPClientCustomError", "", -1, r.msg))
        ELSE IF r.errcode = FILE_NOT_FOUND THEN
            Raise(Exc("TFTPClientFileNotFoundError", "", -1, r.msg))
        ELSE IF r.errcode = ILLEGAL_OPERATION THEN
            Raise(Exc("TFTPClientIllegalOperationError", "", -1, r.msg))
        ELSE Raise(Exc("TFTPClientError", "Server error", r.errcode, r.msg))
    ELSE Pass

process_err(r) ==
    IF r.op = ERR THEN
        IF r.errcode = ACCESS_VIOLATION THEN
            Raise(Exc("TFTPClientAccessViolationError", "", -1, r.msg))
        ELSE IF r.errcode = CUSTOM THEN
            Raise(Exc("TFTPClientCustomError", "", -1, r.msg))
        ELSE IF r.errcode = DISK_FULL THEN
            Raise(Exc("TFTPClientDiskFullError", "", -1, r.msg))
        ELSE IF r.errcode = FILE_NOT_FOUND THEN
            Raise(Exc("TFTPClientFileNotFoundError", "", -1, r.msg))
        ELSE IF r.errcode = ILLEGAL_OPERATION THEN
            Raise(Exc("TFTPClientIllegalOperationError", "", -1, r.msg))
        ELSE Raise(Exc("TFTPClientError", "Server error", r.errcode, r.msg))
    ELSE Pass

\* process_unhandled passing over the packet
process_unhandled_ignore(r) == ReturnNone

process_unhandled(r) == Raise(Exc("TFTPClientError", "Unexpected packet", r.op, <<>>))

\* r[key] of a dict without the key
KeyError(key) == Raise(Exc("KeyError", key, -1, <<>>))

handle_read_connect(r) ==
    IF process_err(r).t = "raise" THEN process_err(r)
    ELSE IF r.op = OACK THEN Return(r)
    ELSE IF r.op = DATA THEN
        IF r.blocknum = 1 THEN Return(r) ELSE ReturnNone
    ELSE process_unhandled(r)

handle_write_connect(r) ==
    IF process_err(r).t = "raise" THEN process_err(r)
    ELSE IF r.op = OACK THEN Return(r)
    ELSE IF r.op = ACK THEN
        IF "blocknum" \notin DOMAIN r THEN KeyError("blocknum")
        ELSE IF r.blocknum = 0 THEN Return(r) ELSE ReturnNone
    ELSE process_unhandled(r)

\* handle_data_rx taking a duplicate of the last block for the next one
handle_data_rx_dup(r) ==
    IF process_err(r).t = "raise" THEN process_err(r)
    ELSE IF r.op = DATA THEN
        IF r.blocknum + 1 >= blocknum + 1 THEN Return(r) ELSE ReturnNone
    ELSE process_unhandled(r)

handle_data_rx(r) ==
    IF process_err(r).t = "raise" THEN process_err(r)
    ELSE IF r.op = DATA THEN
        IF r.blocknum = blocknum + 1 THEN Return(r) ELSE ReturnNone
    ELSE process_unhandled(r)

\* handle_data_tx taking any acknowledgement for the awaited one
handle_data_tx_any(r) ==
    IF process_err(r).t = "raise" THEN process_err(r)
    ELSE IF r.op = ACK THEN Return(r)
    ELSE process_unhandled(r)

handle_data_tx(r) ==
    IF process_err(r).t = "raise" THEN process_err(r)
    ELSE IF r.op = ACK THEN
        IF r.acknum = blocknum THEN Return(r) ELSE ReturnNone
    ELSE process_unhandled(r)

\* handle_rx(rx), handle_rx being the bound method txrx was given
Handle(h, r) ==
    CASE h = "handle_read_connect" -> handle_read_connect(r)
      [] h = "handle_write_connect" -> handle_write_connect(r)
      [] h = "handle_data_rx" -> handle_data_rx(r)
      [] h = "handle_data_tx" -> handle_data_tx(r)

\* ------------------------------------------------------------------ options
\* the blksize branch passing over a block size out of range
BlksizeStep_lax(options) ==
    IF Txt_blksize \in DOMAIN options THEN
        IF ~int(options[Txt_blksize]).ok THEN [raised |-> TRUE, blocksize |-> blocksize]
        ELSE IF 64 <= int(options[Txt_blksize]).val /\ int(options[Txt_blksize]).val <= 1468
        THEN [raised |-> FALSE, blocksize |-> int(options[Txt_blksize]).val]
        ELSE [raised |-> FALSE, blocksize |-> blocksize]
    ELSE [raised |-> FALSE, blocksize |-> blocksize]

\* accept_options: the session's blocksize and timeout after it, and whether it
\* raised; whatever is raised inside the try leaves as 'Unacceptable options'
BlksizeStep(options) ==
    IF Txt_blksize \in DOMAIN options THEN
        IF ~int(options[Txt_blksize]).ok THEN [raised |-> TRUE, blocksize |-> blocksize]
        ELSE IF 64 <= int(options[Txt_blksize]).val /\ int(options[Txt_blksize]).val <= 1468
        THEN [raised |-> FALSE, blocksize |-> int(options[Txt_blksize]).val]
        ELSE [raised |-> TRUE, blocksize |-> blocksize]
    ELSE [raised |-> FALSE, blocksize |-> blocksize]

TimeoutStep(options) ==
    IF Txt_timeout \in DOMAIN options THEN
        IF ~int(options[Txt_timeout]).ok THEN [raised |-> TRUE, timeout |-> timeout]
        ELSE IF 1 <= int(options[Txt_timeout]).val
                /\ int(options[Txt_timeout]).val <= cfg.session_timeout
        THEN [raised |-> FALSE, timeout |-> int(options[Txt_timeout]).val]
        ELSE [raised |-> FALSE, timeout |-> timeout]
    ELSE [raised |-> FALSE, timeout |-> timeout]

\* accept_options checking the block size and not storing it
accept_options_keep(oack) ==
    IF "options" \notin DOMAIN oack THEN
        [raised |-> TRUE, blocksize |-> blocksize, timeout |-> timeout]
    ELSE IF BlksizeStep(oack.options).raised THEN
        [raised |-> TRUE, blocksize |-> blocksize, timeout |-> timeout]
    ELSE [raised |-> TimeoutStep(oack.options).raised,
          blocksize |-> blocksize,
          timeout |-> TimeoutStep(oack.options).timeout]

accept_options(oack) ==
    IF "options" \notin DOMAIN oack THEN
        [raised |-> TRUE, blocksize |-> blocksize, timeout |-> timeout]
    ELSE IF BlksizeStep(oack.options).raised THEN
        [raised |-> TRUE, blocksize |-> blocksize, timeout |-> timeout]
    ELSE [raised |-> TimeoutStep(oack.options).raised,
          blocksize |-> BlksizeStep(oack.options).blocksize,
          timeout |-> TimeoutStep(oack.options).timeout]

UnacceptableOptions == Exc("TFTPClientError", "Unacceptable options", -1, <<>>)

\* ------------------------------------------------------------------ environment
ServerIp == "10.0.0.1"
OtherIp == "10.0.0.9"
\* the address the requests go to, the address the server answers from, a stranger
ServerListen == <<ServerIp, 69>>
ServerTid == <<ServerIp, 1069>>
Stranger == <<OtherIp, 1069>>

\* the constructor's arguments: its defaults, with a session deadline of 2 s
ClientCfg ==
    [ip |-> ServerIp, connect_port |-> ServerListen[2], def_timeout |-> 1,
     connect_timeout |-> 5, session_timeout |-> 2, def_blocksize |-> 1468]
Configs == {ClientCfg}
\* a client constructed to request blocks of 1024 bytes and a timeout of 2 s
RequestingCfg == [ClientCfg EXCEPT !.def_blocksize = 1024, !.def_timeout = 2]

Filenames == {<<102>>}

\* n bytes of value b
Payload(n, b) == [i \in 1..n |-> b]
\* n bytes that differ from place to place
Ramp(n) == [i \in 1..n |-> i % 251]

\* the lengths of the payloads a server sends: empty, a full block of 64 bytes,
\* a full block of 512 bytes; a block's bytes tell its number
PayloadLens == {0, 64, 512}

\* the buffers a caller writes
WriteInputs == {Ramp(0), Ramp(3), Ramp(64), Ramp(100), Ramp(128), Ramp(512), Ramp(1200)}

\* option names of a server: blksize in capitals, and one the client does not know
Txt_BLKSIZE == <<66, 76, 75, 83, 73, 90, 69>>
Txt_tsize == <<116, 115, 105, 122, 101>>

\* the datagrams of a server, in the wire format of RFC 1350 and RFC 2347
ErrDatagram(errcode, msg) == PackH(ERR) \o PackH(errcode) \o cstr(msg)
OackDatagram(options) == PackH(OACK) \o JoinOptions(options)

\* the largest block number that fits 16 bits
LastBlock == 256 * 256 - 1

BlockNums == 0..MaxBlock
AckNums == 0..(MaxBlock + 1)
DataDatagrams == {create_data_pkt(n, Payload(k, 16 + n)) : n \in BlockNums, k \in PayloadLens}
AckDatagrams == {create_ack_pkt(n) : n \in AckNums}
ErrDatagrams == {ErrDatagram(c, <<101>>) : c \in 0..9}
OackDatagrams ==
    {OackDatagram(<<>>),
     OackDatagram(<< <<Txt_blksize, Str(512)>> >>),
     OackDatagram(<< <<Txt_blksize, Str(64)>>, <<Txt_timeout, Str(2)>> >>),
     OackDatagram(<< <<Txt_blksize, Str(63)>> >>),
     OackDatagram(<< <<Txt_BLKSIZE, Str(1469)>> >>),
     OackDatagram(<< <<Txt_blksize, Txt_octet>> >>),
     OackDatagram(<< <<Txt_tsize, Str(0)>> >>),
     OackDatagram(<< <<Txt_timeout, Str(0)>> >>),
     OackDatagram(<< <<Txt_timeout, Str(3)>> >>),
     OackDatagram(<< <<Txt_timeout, Txt_octet>> >>)}
\* the datagrams of a server that has come to the last block number
WrapDatagrams ==
    {create_ack_pkt(LastBlock)}
        \cup {create_data_pkt(LastBlock, Payload(k, 16)) : k \in {0, 512}}
\* datagrams that fail to decode, and opcodes the client does not know or expect
BadDatagrams == {<<0>>, ErrDatagram(1, <<200>>)}
OddDatagrams == {PackH(9), create_rq_pkt(<<102>>, RRQ, <<>>)}

ServerDatagrams ==
    DataDatagrams \cup AckDatagrams \cup ErrDatagrams \cup OackDatagrams
        \cup BadDatagrams \cup OddDatagrams \cup WrapDatagrams

\* the datagrams of a source that is not the peer: another host, or another port
\* of the server
StrayDatagrams ==
    {ErrDatagram(1, <<101>>), create_data_pkt(1, Payload(3, 7)),
     create_data_pkt(2, <<>>), create_ack_pkt(0), create_ack_pkt(1), OackDatagram(<<>>)}

\* a datagram, the address it comes from, and what parse_pkt makes of it
Arrival(d, r) == [data |-> d, from |-> r, rx |-> parse_pkt(d)]
Arrivals ==
    {Arrival(d, r) : d \in ServerDatagrams, r \in {ServerListen, ServerTid}}
        \cup {Arrival(d, Stranger) : d \in StrayDatagrams}

\* ------------------------------------------------------------------ txrx
Ticks(seconds) == seconds * TicksPerSec

\* txrx's first lines: settimeout, start = time.time(), the loop is entered
EnterTxrx(pkt, handler, limit) ==
    /\ tx' = pkt
    /\ handle_rx' = handler
    /\ deadline' = limit
    /\ now' = start
    /\ rxstart' = start
    /\ txcount' = 0
    /\ woke' = "none"
    /\ phase' = IF handle_rx = handler
                THEN Min(phase + (rxstart - start), Ticks(cfg.session_timeout) + 1)
                ELSE 0
    /\ pc' = "tx"

\* the deadline test allowing one retry window more
Expired_late == now - start > Ticks(deadline) + Ticks(timeout)

\* the loop's deadline test
Expired == now - start > Ticks(deadline)

\* txrx without its sleep
SleepTicks_none(rxend) == 0

\* time.sleep's argument, in ticks
SleepTicks(rxend) == rxstart + Ticks(timeout) - rxend

\* the top of the loop, deadline passed: raise TFTPClientError('timeout')
TxrxTimeout ==
    /\ pc = "tx"
    /\ Expired
    /\ pc' = "failed"
    /\ exc' = Exc("TFTPClientError", "timeout", -1, <<>>)
    /\ UNCHANGED <<cfg, call, filename, input, self, buf, chunk, txrxvars, woke, rx, remote,
                   lastSent, sentData, accepted, result, queued, phase>>

\* the top of the loop, deadline not passed: sendto, then recvfrom is entered
TxrxSend ==
    /\ pc = "tx"
    /\ ~Expired
    /\ lastSent' = [pkt |-> tx, to |-> <<cfg.ip, port>>]
    /\ txcount' = txcount + 1
    /\ sentData' = IF parse_pkt(tx).op = DATA /\ txcount = 0
                   THEN Append(sentData, parse_pkt(tx)) ELSE sentData
    /\ rxstart' = now
    /\ pc' = "rx"
    /\ UNCHANGED <<cfg, call, filename, input, self, buf, chunk, tx, handle_rx, deadline,
                   now, woke, rx, remote, accepted, result, exc, queued, phase>>

\* recvfrom raises socket.timeout: continue
RecvTimeout ==
    /\ pc = "rx"
    /\ \E late \in 1..MaxLate : now' = rxstart + Ticks(timeout) + late
    /\ woke' = "timeout"
    /\ queued' = FALSE
    /\ pc' = "tx"
    /\ UNCHANGED <<cfg, call, filename, input, self, buf, chunk, tx, handle_rx, deadline,
                   rxstart, txcount, rx, remote, lastSent, sentData, accepted, result, exc,
                   phase>>

\* the socket hands over a datagram: any before connect(); after it the peer's,
\* and one of another source that was in its queue when it was connected
Delivers(a) ==
    /\ pc = "rx"
    /\ \/ peer = None
       \/ a.from = peer
       \/ queued /\ a.data \in StrayDatagrams

\* what txrx makes of a datagram: "none" when it fails to decode, comes from
\* another IP or the predicate returns None
Outcome(a) ==
    IF a.rx = ParseError THEN ReturnNone
    ELSE IF a.from[1] # cfg.ip THEN ReturnNone
    ELSE Handle(handle_rx, a.rx)

\* a datagram that txrx passes over: the rest of the window is slept, the loop goes on
RecvIgnored ==
    \E a \in Arrivals :
        /\ Delivers(a)
        /\ Outcome(a).t = "none"
        /\ rx' = a.rx
        /\ remote' = a.from
        /\ \E rxend \in {rxstart, rxstart + Ticks(timeout)}, late \in 1..MaxLate :
               now' = rxend + SleepTicks(rxend) + late
        /\ woke' = "rejected"
        /\ queued' = FALSE
        /\ pc' = "tx"
        /\ UNCHANGED <<cfg, call, filename, input, self, buf, chunk, tx, handle_rx, deadline,
                       rxstart, txcount, lastSent, sentData, accepted, result, exc, phase>>

\* a datagram on which the predicate raises: the exception leaves txrx and the call
RecvRaise ==
    \E a \in Arrivals :
        /\ Delivers(a)
        /\ Outcome(a).t = "raise"
        /\ rx' = a.rx
        /\ remote' = a.from
        /\ exc' = Outcome(a).exc
        /\ woke' = "raised"
        /\ queued' = FALSE
        /\ pc' = "failed"
        /\ UNCHANGED <<cfg, call, filename, input, self, buf, chunk, txrxvars, lastSent,
                       sentData, accepted, result, phase>>

\* ------------------------------------------------------------------ read, write
\* buf[:n] and buf[n:]
Take(b, n) == SubSeq(b, 1, Min(n, Len(b)))
Drop(b, n) == SubSeq(b, n + 1, Len(b))

\* a client constructed, no call made yet
Idle ==
    /\ pc = "idle"
    /\ call = ""
    /\ filename = <<>>
    /\ input = <<>>
    /\ blocknum = 0
    /\ blocksize = 0
    /\ timeout = 0
    /\ port = 0
    /\ peer = None
    /\ buf = <<>>
    /\ chunk = <<>>
    /\ tx = <<>>
    /\ handle_rx = ""
    /\ deadline = 0
    /\ now = 0
    /\ rxstart = 0
    /\ txcount = 0
    /\ woke = "none"
    /\ rx = NoPkt
    /\ remote = None
    /\ lastSent = [pkt |-> <<>>, to |-> None]
    /\ sentData = <<>>
    /\ accepted = <<>>
    /\ result = <<>>
    /\ exc = NoExc
    /\ queued = FALSE
    /\ phase = 0

Init == cfg \in Configs /\ Idle

\* setup() taking the block size and the timeout the client requests
Setup_cfg ==
    /\ blocknum' = 0
    /\ blocksize' = cfg.def_blocksize
    /\ timeout' = cfg.def_timeout
    /\ port' = cfg.connect_port
    /\ peer' = None
    /\ queued' = FALSE

\* setup()
Setup ==
    /\ blocknum' = 0
    /\ blocksize' = 512
    /\ timeout' = 1
    /\ port' = cfg.connect_port
    /\ peer' = None
    /\ queued' = FALSE

\* read(filename) up to its first txrx
ReadCall ==
    \E f \in Filenames :
        /\ pc = "idle"
        /\ call' = "read"
        /\ filename' = f
        /\ Setup
        /\ buf' = <<>>
        /\ EnterTxrx(create_rrq_pkt(f, cfg.def_blocksize, cfg.def_timeout),
                     "handle_read_connect", cfg.connect_timeout)
        /\ UNCHANGED <<cfg, input, chunk, rx, remote, lastSent, sentData, accepted,
                       result, exc>>

\* write(filename, buf) up to its first txrx
WriteCall ==
    \E f \in Filenames, b \in WriteInputs :
        /\ pc = "idle"
        /\ call' = "write"
        /\ filename' = f
        /\ input' = b
        /\ Setup
        /\ buf' = b
        /\ EnterTxrx(create_wrq_pkt(f, cfg.def_blocksize, cfg.def_timeout),
                     "handle_write_connect", cfg.connect_timeout)
        /\ UNCHANGED <<cfg, chunk, rx, remote, lastSent, sentData, accepted, result, exc>>

\* a packet that struct.pack cannot build: struct.error leaves the call
PackFails ==
    /\ pc' = "failed"
    /\ exc' = Exc("struct.error", "", -1, <<>>)
    /\ woke' = "returned"
    /\ UNCHANGED <<txrxvars, phase>>

\* read's loop acknowledging the block it waits for
ReadLoop_next(n) ==
    IF CanPackH(n + 1)
    THEN EnterTxrx(create_ack_pkt(n + 1), "handle_data_rx", cfg.session_timeout)
         /\ UNCHANGED exc
    ELSE PackFails

\* read's loop from its top: the acknowledgement is built and txrx entered
ReadLoop(n) ==
    IF CanPackH(n)
    THEN EnterTxrx(create_ack_pkt(n), "handle_data_rx", cfg.session_timeout)
         /\ UNCHANGED exc
    ELSE PackFails

\* write's loop giving txrx the connect deadline
WriteLoop_connect(bs) ==
    /\ blocknum' = blocknum + 1
    /\ chunk' = Take(buf, bs)
    /\ buf' = Drop(buf, bs)
    /\ IF CanPackH(blocknum + 1)
       THEN EnterTxrx(create_data_pkt(blocknum + 1, Take(buf, bs)), "handle_data_tx",
                      cfg.connect_timeout)
            /\ UNCHANGED exc
       ELSE PackFails

\* write's loop from its top: the next chunk is cut, its packet built, txrx entered
WriteLoop(bs) ==
    /\ blocknum' = blocknum + 1
    /\ chunk' = Take(buf, bs)
    /\ buf' = Drop(buf, bs)
    /\ IF CanPackH(blocknum + 1)
       THEN EnterTxrx(create_data_pkt(blocknum + 1, Take(buf, bs)), "handle_data_tx",
                      cfg.session_timeout)
            /\ UNCHANGED exc
       ELSE PackFails

\* read's test of a short payload (line 259), write's of a short chunk (line 282)
ReadFinished(resp) == Len(resp.data) < blocksize
\* write stopping on a full last chunk
WriteFinished_full(c) == Len(c) <= blocksize
WriteFinished(c) == Len(c) < blocksize

\* connect(remote) leaving self.port as it is
Connect_noport(r) ==
    /\ peer' = r
    /\ port' = port
    /\ queued' = TRUE

\* connect(remote)
Connect(r) ==
    /\ peer' = r
    /\ port' = r[2]
    /\ queued' = TRUE

\* read: the first txrx returns the reply to the Read-Request
ReadConnected ==
    \E a \in Arrivals :
        /\ Delivers(a)
        /\ handle_rx = "handle_read_connect"
        /\ Outcome(a).t = "return"
        /\ rx' = a.rx
        /\ remote' = a.from
        /\ IF Outcome(a).resp.op = OACK
           THEN /\ blocksize' = accept_options(Outcome(a).resp).blocksize
                /\ timeout' = accept_options(Outcome(a).resp).timeout
                /\ UNCHANGED <<blocknum, buf, accepted>>
                /\ IF accept_options(Outcome(a).resp).raised
                   THEN /\ pc' = "failed"
                        /\ exc' = UnacceptableOptions
                        /\ woke' = "returned"
                        /\ UNCHANGED <<port, peer, txrxvars, queued, phase>>
                   ELSE /\ Connect(a.from)
                        /\ ReadLoop(blocknum)
           ELSE /\ blocknum' = 1
                /\ buf' = buf \o Outcome(a).resp.data
                /\ accepted' = Append(accepted, Outcome(a).resp)
                /\ UNCHANGED <<blocksize, timeout>>
                /\ Connect(a.from)
                /\ ReadLoop(1)
        /\ UNCHANGED <<cfg, call, filename, input, chunk, lastSent, sentData, result>>

\* read: a txrx of the loop returns the next Data packet
ReadData ==
    \E a \in Arrivals :
        /\ Delivers(a)
        /\ handle_rx = "handle_data_rx"
        /\ Outcome(a).t = "return"
        /\ rx' = a.rx
        /\ remote' = a.from
        /\ queued' = FALSE
        /\ buf' = buf \o Outcome(a).resp.data
        /\ blocknum' = blocknum + 1
        /\ accepted' = Append(accepted, Outcome(a).resp)
        /\ IF ReadFinished(Outcome(a).resp)
           THEN IF CanPackH(blocknum + 1)
                THEN /\ lastSent' = [pkt |-> create_ack_pkt(blocknum + 1), to |-> peer]
                     /\ result' = buf \o Outcome(a).resp.data
                     /\ pc' = "done"
                     /\ woke' = "returned"
                     /\ UNCHANGED <<txrxvars, exc, phase>>
                ELSE PackFails /\ UNCHANGED <<lastSent, result>>
           ELSE ReadLoop(blocknum + 1) /\ UNCHANGED <<lastSent, result>>
        /\ UNCHANGED <<cfg, call, filename, input, blocksize, timeout, port, peer, chunk,
                       sentData>>

\* write: the first txrx returns the reply to the Write-Request
WriteConnected ==
    \E a \in Arrivals :
        /\ Delivers(a)
        /\ handle_rx = "handle_write_connect"
        /\ Outcome(a).t = "return"
        /\ rx' = a.rx
        /\ remote' = a.from
        /\ IF Outcome(a).resp.op = OACK
           THEN /\ blocksize' = accept_options(Outcome(a).resp).blocksize
                /\ timeout' = accept_options(Outcome(a).resp).timeout
                /\ IF accept_options(Outcome(a).resp).raised
                   THEN /\ pc' = "failed"
                        /\ exc' = UnacceptableOptions
                        /\ woke' = "returned"
                        /\ UNCHANGED <<blocknum, buf, chunk, port, peer, txrxvars, queued,
                                       phase>>
                   ELSE /\ Connect(a.from)
                        /\ WriteLoop(accept_options(Outcome(a).resp).blocksize)
           ELSE /\ UNCHANGED <<blocksize, timeout>>
                /\ Connect(a.from)
                /\ WriteLoop(blocksize)
        /\ UNCHANGED <<cfg, call, filename, input, lastSent, sentData, accepted, result>>

\* write: a txrx of the loop returns the acknowledgement of the block sent
WriteData ==
    \E a \in Arrivals :
        /\ Delivers(a)
        /\ handle_rx = "handle_data_tx"
        /\ Outcome(a).t = "return"
        /\ rx' = a.rx
        /\ remote' = a.from
        /\ queued' = FALSE
        /\ IF WriteFinished(chunk)
           THEN /\ pc' = "done"
                /\ woke' = "returned"
                /\ UNCHANGED <<blocknum, buf, chunk, txrxvars, exc, phase>>
           ELSE WriteLoop(blocksize)
        /\ UNCHANGED <<cfg, call, filename, input, blocksize, timeout, port, peer,
                       lastSent, sentData, accepted, result>>

Next ==
    \/ ReadCall
    \/ WriteCall
    \/ TxrxTimeout
    \/ TxrxSend
    \/ RecvTimeout
    \/ RecvIgnored
    \/ RecvRaise
    \/ ReadConnected
    \/ ReadData
    \/ WriteConnected
    \/ WriteData

Spec == Init /\ [][Next]_vars

\* a transfer that no Option-Acknowledgement began, at the top of the txrx that
\* follows block LastBlock - 1: a write about to send block LastBlock, the bytes
\* from that block on left of its buffer, or a read about to acknowledge block
\* LastBlock - 1. buf, input, sentData and accepted hold the end of the transfer
\* only, from block LastBlock - 1 on.
InitWrap ==
    /\ cfg = ClientCfg
    /\ pc = "tx"
    /\ filename \in Filenames
    /\ blocksize = 512
    /\ timeout = 1
    /\ port = ServerTid[2]
    /\ peer = ServerTid
    /\ deadline = cfg.session_timeout
    /\ now = start
    /\ rxstart = start
    /\ txcount = 0
    /\ woke = "none"
    /\ remote = ServerTid
    /\ result = <<>>
    /\ exc = NoExc
    /\ queued = FALSE
    /\ phase = 0
    /\ \/ /\ call = "write"
          /\ blocknum = LastBlock
          /\ input \in WriteInputs
          /\ chunk = Take(input, blocksize)
          /\ buf = Drop(input, blocksize)
          /\ tx = create_data_pkt(blocknum, chunk)
          /\ handle_rx = "handle_data_tx"
          /\ rx = parse_pkt(create_ack_pkt(LastBlock - 1))
          /\ lastSent = [pkt |-> create_data_pkt(LastBlock - 1, Payload(blocksize, 16)),
                         to |-> peer]
          /\ sentData = <<parse_pkt(lastSent.pkt)>>
          /\ accepted = <<>>
       \/ /\ call = "read"
          /\ blocknum = LastBlock - 1
          /\ input = <<>>
          /\ chunk = <<>>
          /\ rx = parse_pkt(create_data_pkt(LastBlock - 1, Payload(blocksize, 16)))
          /\ buf = rx.data
          /\ tx = create_ack_pkt(blocknum)
          /\ handle_rx = "handle_data_rx"
          /\ lastSent = [pkt |-> create_ack_pkt(LastBlock - 2), to |-> peer]
          /\ sentData = <<>>
          /\ accepted = <<rx>>

\* the steps of a transfer past its handshake
NextWrap ==
    \/ TxrxTimeout
    \/ TxrxSend
    \/ RecvTimeout
    \/ RecvIgnored
    \/ RecvRaise
    \/ ReadData
    \/ WriteData

SpecWrap == InitWrap /\ [][NextWrap]_vars

\* the calls of a client that requests 1024 bytes and 2 s
InitConfigured == cfg = RequestingCfg /\ Idle
SpecConfigured == InitConfigured /\ [][Next]_vars

\* ------------------------------------------------------------------ properties
\* the payloads of a sequence of Data packets, joined in order
RECURSIVE Concat(_)
Concat(pkts) == IF pkts = <<>> THEN <<>> ELSE Head(pkts).data \o Concat(Tail(pkts))

\* a step in which recvfrom returned a datagram
Received == pc = "rx" /\ woke' # "timeout"

\* C1: during a read the Data packets accepted carry the block numbers 1, 2, 3, ...
\* in order, none skipped and none twice, the buffer is the concatenation of
\* their payloads in that order, and that is what read returns.
C1_ReadAcceptsConsecutiveBlocks ==
    call = "read" =>
        /\ \A i \in 1..Len(accepted) : accepted[i].op = DATA /\ accepted[i].blocknum = i
        /\ buf = Concat(accepted)
        /\ pc = "done" => result = Concat(accepted)

\* a read that has returned two blocks, a full one of 512 bytes and a short one of 64
C1_Witness ==
    /\ call = "read"
    /\ pc = "done"
    /\ Len(accepted) = 2
    /\ Len(result) = 512 + 64

\* C2: a read ends, successfully, exactly at the first accepted payload shorter
\* than the block size, whether the handshake or the loop accepted it: once such
\* a payload is accepted the read is done, the payload is the last one accepted
\* and the last packet sent acknowledges it.
C2_ReadEndsAtFirstShortPayload ==
    call = "read" =>
        /\ pc = "done" <=> \E i \in 1..Len(accepted) : Len(accepted[i].data) < blocksize
        /\ \A i \in 1..Len(accepted) :
               Len(accepted[i].data) < blocksize =>
                   /\ i = Len(accepted)
                   /\ lastSent.pkt = create_ack_pkt(i)

\* C3: when write has returned, the last Data block sent is shorter than the
\* block size and was acknowledged; for an input whose length is a multiple of
\* the block size (0 included) that block is empty.
C3_WriteEndsWithShortBlock ==
    (call = "write" /\ pc = "done") =>
        /\ sentData # <<>>
        /\ Len(sentData[Len(sentData)].data) < blocksize
        /\ rx = [op |-> ACK, acknum |-> sentData[Len(sentData)].blocknum]
        /\ Len(input) % blocksize = 0 => sentData[Len(sentData)].data = <<>>

\* a write of a non-empty whole number of blocks that has returned
C3_Witness ==
    /\ call = "write"
    /\ pc = "done"
    /\ Len(input) > 0
    /\ Len(input) % blocksize = 0
    /\ Len(sentData) = Len(input) \div blocksize + 1

\* the block size an Option-Acknowledgement names
OackBlksize(r) == int(r.options[Txt_blksize]).val

\* C4: after an Option-Acknowledgement with a block size B, write sends B-byte
\* slices: the first Data block (built when the handshake's txrx returns, rx
\* still being its reply) is the first B bytes of the input, and a write
\* that returns has sent floor(L/B)+1 blocks numbered 1..floor(L/B)+1, all but
\* the last B bytes long, whose payloads joined give the input; 1200 bytes with
\* B = 512 go out as blocks of 512, 512 and 176 bytes.
C4_WriteSlicesByNegotiatedSize ==
    call = "write" =>
        /\ (handle_rx = "handle_data_tx" /\ blocknum = 1 /\ woke = "none"
               /\ rx.op = OACK /\ Txt_blksize \in DOMAIN rx.options) =>
               /\ blocksize = OackBlksize(rx)
               /\ tx = create_data_pkt(1, Take(input, OackBlksize(rx)))
        /\ pc = "done" =>
               /\ Len(sentData) = Len(input) \div blocksize + 1
               /\ \A i \in 1..Len(sentData) : sentData[i].blocknum = i
               /\ \A i \in 1..(Len(sentData) - 1) : Len(sentData[i].data) = blocksize
               /\ Concat(sentData) = input
               /\ (Len(input) = 1200 /\ blocksize = 512) =>
                      <<Len(sentData[1].data), Len(sentData[2].data), Len(sentData[3].data)>>
                          = <<512, 512, 176>>

\* the 1200-byte upload, 1468 requested and 512 acknowledged, has returned
C4_Witness ==
    /\ call = "write"
    /\ pc = "done"
    /\ cfg.def_blocksize = 1468
    /\ blocksize = 512
    /\ Len(input) = 1200
    /\ Len(sentData) = 3

\* a Data packet (read) or an Acknowledgement (write) of the transfer phase whose
\* number is not the awaited one
Stale(r) ==
    \/ handle_rx = "handle_data_rx" /\ r.op = DATA /\ r.blocknum # blocknum + 1
    \/ handle_rx = "handle_data_tx" /\ r.op = ACK /\ r.acknum # blocknum

\* C5: in the transfer phase a Data packet or Acknowledgement from the server
\* whose number is not the awaited one changes nothing of the session (block
\* counter, block size, timeout, port, buffers) and raises nothing: txrx goes on
\* with the same packet and the same predicate.
C5_StaleBlockIgnored ==
    [][(Received /\ remote'[1] = cfg.ip /\ Stale(rx')) =>
           /\ UNCHANGED <<blocknum, blocksize, timeout, port, peer, buf, chunk, accepted>>
           /\ UNCHANGED <<tx, handle_rx, deadline>>
           /\ pc' = "tx"
           /\ exc' = NoExc]_vars

\* a stale Data packet was passed over during the loop of a read
C5_Witness ==
    /\ handle_rx = "handle_data_rx"
    /\ pc = "tx"
    /\ woke = "rejected"
    /\ remote = peer
    /\ rx.op = DATA
    /\ rx.blocknum # blocknum + 1

\* C6 as claimed: a datagram that is passed over never leads to a transmission,
\* the packet goes out again only after a receive timeout; so whenever txrx
\* waits for a datagram after a retransmission, the wait before ended in a timeout.
C6_ResendOnlyAfterReceiveTimeout ==
    (pc = "rx" /\ txcount > 1) => woke = "timeout"

\* C6 amended: a datagram that is passed over (undecodable, from another IP, or
\* stale) triggers no transmission at once: the step sends nothing and sleeps
\* out the per-retry window; the packet then goes out again at the top of the
\* loop, so two transmissions of one txrx are at least a per-retry timeout apart.
C6_ResendNotBeforeWindowEnds ==
    [][/\ (pc = "rx" /\ woke' = "rejected") =>
              /\ UNCHANGED <<lastSent, txcount, tx>>
              /\ pc' = "tx"
              /\ now' - rxstart >= Ticks(timeout)
       /\ (txcount' = txcount + 1 /\ txcount >= 1) =>
              /\ lastSent'.pkt = tx
              /\ now - rxstart >= Ticks(timeout)]_vars

\* the packet has been sent again after a datagram was passed over
C6_Witness ==
    /\ pc = "rx"
    /\ txcount = 2
    /\ woke = "rejected"

\* the classes of the exceptions a server's Error packet is translated to
ErrorKind ==
    [c \in 0..4 |->
        CASE c = CUSTOM -> "TFTPClientCustomError"
          [] c = FILE_NOT_FOUND -> "TFTPClientFileNotFoundError"
          [] c = ACCESS_VIOLATION -> "TFTPClientAccessViolationError"
          [] c = DISK_FULL -> "TFTPClientDiskFullError"
          [] c = ILLEGAL_OPERATION -> "TFTPClientIllegalOperationError"]

\* C7: a decoded Error packet with code 1 from the server, at any step of a read
\* or a write, makes the call fail at once with the file-not-found failure: the
\* step sends nothing, and after the failure nothing is sent or received.
C7_NotFoundAbortsAtOnce ==
    [][/\ (Received /\ remote'[1] = cfg.ip /\ rx'.op = ERR /\ rx'.errcode = 1) =>
              /\ pc' = "failed"
              /\ exc' = Exc("TFTPClientFileNotFoundError", "", -1, rx'.msg)
              /\ UNCHANGED <<lastSent, txcount>>
       /\ pc = "failed" => UNCHANGED <<lastSent, txcount, rx, remote, pc, exc>>]_vars

\* a write failed with file-not-found in its transfer phase
C7_Witness ==
    /\ call = "write"
    /\ handle_rx = "handle_data_tx"
    /\ pc = "failed"
    /\ rx.op = ERR
    /\ rx.errcode = 1
    /\ exc.cls = "TFTPClientFileNotFoundError"

\* C8: with a per-retry timeout of 1 s and a connect deadline of 5 s the request
\* is sent at most 5 times, and a call to which no datagram ever came fails with
\* the timeout error; in every txrx a packet is sent only while the time since
\* start does not exceed the deadline.
C8_AtMostFiveRequests ==
    /\ (handle_rx \in {"handle_read_connect", "handle_write_connect"}
           /\ timeout = 1 /\ deadline = 5) => txcount <= 5
    /\ pc = "rx" => rxstart - start <= Ticks(deadline)
    /\ (pc = "failed" /\ rx = NoPkt) => exc = Exc("TFTPClientError", "timeout", -1, <<>>)

\* a read to which no datagram came has failed with a timeout after 5 requests
C8_Witness ==
    /\ call = "read"
    /\ pc = "failed"
    /\ rx = NoPkt
    /\ txcount = 5
    /\ timeout = 1
    /\ deadline = 5
    /\ exc.what = "timeout"
    /\ lastSent.pkt = create_rrq_pkt(filename, 1468, 1)

\* C9: in the write handshake an Acknowledgement of block 0 from the server is
\* taken as the reply (the session binds to its source port, keeps the default
\* options and goes on to Data block 1), and an Acknowledgement of any other
\* block is passed over: the handshake goes on and nothing is raised.
C9_WriteHandshakeAck ==
    [][(Received /\ handle_rx = "handle_write_connect" /\ remote'[1] = cfg.ip
            /\ rx'.op = ACK) =>
           IF rx'.acknum = 0
           THEN /\ handle_rx' = "handle_data_tx"
                /\ port' = remote'[2]
                /\ blocksize' = 512 /\ timeout' = 1
                /\ tx' = create_data_pkt(1, Take(input, 512))
                /\ exc' = NoExc
           ELSE /\ handle_rx' = "handle_write_connect"
                /\ pc' = "tx"
                /\ exc' = NoExc]_vars

C11_OnlyClientErrors ==
    pc = "failed" => exc.cls \in ClientErrors

\* the number of the last Data block a read has accepted, 0 when it has none
LastAccepted == IF accepted = <<>> THEN 0 ELSE accepted[Len(accepted)].blocknum

\* what C12 says of a state of a read
AcksLastAccepted ==
    call = "read" =>
        /\ (handle_rx = "handle_data_rx" /\ pc \in {"tx", "rx"}) =>
               /\ tx = create_ack_pkt(LastAccepted)
               /\ blocknum = LastAccepted
               /\ txcount >= 1 => lastSent.pkt = tx
        /\ pc = "done" =>
               /\ lastSent.pkt = create_ack_pkt(LastAccepted)
               /\ Len(accepted[Len(accepted)].data) < blocksize

\* C12: every Acknowledgement a read sends carries the number of the last Data
\* block it has accepted, 0 after an Option-Acknowledgement; the last packet of
\* a read that returns acknowledges the final short block; and the Data block
\* accepted while ACK n is the outbound packet is block n+1.
C12_ReadAcksLastAccepted ==
    [][/\ AcksLastAccepted'
       /\ (call = "read" /\ handle_rx = "handle_data_rx" /\ accepted' # accepted) =>
              /\ tx = create_ack_pkt(rx'.blocknum - 1)
              /\ accepted' = Append(accepted, rx')]_vars

\* a read that has returned after two blocks has sent ACK 2 last, to its peer
C12_Witness ==
    /\ call = "read"
    /\ pc = "done"
    /\ Len(accepted) = 2
    /\ lastSent.pkt = create_ack_pkt(2)
    /\ lastSent.to = peer

\* a step in which the handshake's txrx received a decoded Option-Acknowledgement
\* from the server
OackReceived ==
    /\ Received
    /\ handle_rx \in {"handle_read_connect", "handle_write_connect"}
    /\ remote'[1] = cfg.ip
    /\ rx'.op = OACK

\* an option value that is an integer between lo and hi
IntWithin(v, lo, hi) == int(v).ok /\ lo <= int(v).val /\ int(v).val <= hi

\* C13: an Option-Acknowledgement whose 'timeout' value is not an integer in
\* [1, session deadline] makes the transfer fail with the negotiation failure;
\* the data phase is not entered with the value passed over.
C13_BadTimeoutFails ==
    [][(OackReceived /\ Txt_timeout \in DOMAIN rx'.options
            /\ ~IntWithin(rx'.options[Txt_timeout], 1, cfg.session_timeout)) =>
           /\ pc' = "failed"
           /\ exc' = UnacceptableOptions
           /\ handle_rx' = handle_rx]_vars

\* C14: an Option-Acknowledgement with a 'blksize' value that is an integer in
\* [64, 1468] makes it the session's block size; with any other 'blksize' value
\* the transfer fails with the negotiation failure and the step sends nothing;
\* with neither 'blksize' nor 'timeout' among its keys it leaves the block size
\* and the timeout as they were and the transfer goes on to the data phase.
C14_BlksizeAccepted ==
    [][OackReceived =>
           /\ Txt_blksize \in DOMAIN rx'.options =>
                  IF IntWithin(rx'.options[Txt_blksize], 64, 1468)
                  THEN blocksize' = int(rx'.options[Txt_blksize]).val
                  ELSE /\ pc' = "failed"
                       /\ exc' = UnacceptableOptions
                       /\ UNCHANGED <<lastSent, txcount, handle_rx, blocksize>>
           /\ (DOMAIN rx'.options) \cap {Txt_blksize, Txt_timeout} = {} =>
                  /\ UNCHANGED <<blocksize, timeout>>
                  /\ pc' = "tx"
                  /\ handle_rx' \in {"handle_data_rx", "handle_data_tx"}
                  /\ exc' = NoExc]_vars

\* a transfer failed on a block size of 1469 given under the key BLKSIZE
C14_Witness ==
    /\ pc = "failed"
    /\ exc = UnacceptableOptions
    /\ rx.op = OACK
    /\ Txt_blksize \in DOMAIN rx.options
    /\ int(rx.options[Txt_blksize]).val = 1469

\* the handshake and the data phase of a call, by the predicate txrx was given
InHandshake == handle_rx \in {"handle_read_connect", "handle_write_connect"}
InDataPhase == handle_rx \in {"handle_data_rx", "handle_data_tx"}

\* C15: a call starts with a block size of 512 and a timeout of 1 s whatever the
\* client requests, no step of the handshake but its last changes them, the last
\* one leaves them at 512 and 1 s when the reply is not an Option-Acknowledgement,
\* and no step of the data phase changes them, the last one included.
C15_NegotiatedOnce ==
    [][/\ pc = "idle" => blocksize' = 512 /\ timeout' = 1
       /\ (InHandshake /\ handle_rx' = handle_rx /\ pc' # "failed") =>
              blocksize' = 512 /\ timeout' = 1
       /\ (InHandshake /\ handle_rx' # handle_rx /\ rx'.op # OACK) =>
              blocksize' = 512 /\ timeout' = 1
       /\ InDataPhase => handle_rx' = handle_rx /\ UNCHANGED <<blocksize, timeout>>]_vars

\* a client that requests 1024 bytes and 2 s has got Data 1 for its Read-Request
\* and is in the data phase with 512 bytes and 1 s
C15_Witness ==
    /\ cfg.def_blocksize = 1024
    /\ cfg.def_timeout = 2
    /\ call = "read"
    /\ handle_rx = "handle_data_rx"
    /\ woke = "none"
    /\ rx.op = DATA
    /\ blocksize = 512
    /\ timeout = 1

\* a step in which txrx sends its packet
Sends == pc = "tx" /\ pc' = "rx"

\* C16: the packets of the handshake go to the configured port; the step that
\* ends the handshake binds the session to the address its reply came from; from
\* then on every packet, the last acknowledgement of a read included, goes to
\* that address, and the address does not change.
C16_PortPinned ==
    [][/\ (Sends /\ InHandshake) =>
              lastSent'.to = <<cfg.ip, cfg.connect_port>> /\ lastSent'.pkt = tx
       /\ (InHandshake /\ handle_rx' = handle_rx) =>
              peer' = None /\ port' = cfg.connect_port
       /\ (InHandshake /\ handle_rx' # handle_rx) =>
              peer' = remote' /\ port' = remote'[2] /\ remote'[1] = cfg.ip
       /\ (Sends /\ InDataPhase) => lastSent'.to = peer /\ lastSent'.pkt = tx
       /\ (call = "read" /\ pc' = "done") => lastSent'.to = peer
       /\ InDataPhase => UNCHANGED <<peer, port>> /\ peer # None]_vars

\* a read answered from a port other than the configured one has returned, its
\* last acknowledgement gone to that port
C16_Witness ==
    /\ call = "read"
    /\ pc = "done"
    /\ peer = ServerTid
    /\ peer[2] # cfg.connect_port
    /\ lastSent.to = ServerTid
    /\ parse_pkt(lastSent.pkt).op = ACK

\* C17: the claim as stated. A txrx of the data phase sends only while the phase
\* as a whole has lasted no longer than the session deadline.
C17_DeadlineBoundsWholePhase ==
    (InDataPhase /\ pc = "rx") => phase + (rxstart - start) <= Ticks(cfg.session_timeout)

\* the exception txrx raises at its deadline
TimeoutError == Exc("TFTPClientError", "timeout", -1, <<>>)

\* C17, amended: the session deadline bounds each txrx of the data phase, measured
\* from that txrx's start. A txrx of the data phase is given the session deadline;
\* it sends only while no more than the deadline has passed since its start, and
\* at the top of its loop later than that it fails with the timeout error; no
\* txrx lasts longer than the deadline, one retry window and the lateness of one
\* wake-up; the step that accepts a reply and enters the next txrx starts the
\* clock anew, whatever the phase has lasted.
C17_DeadlineBoundsEachExchange ==
    [][/\ InDataPhase =>
              /\ deadline = cfg.session_timeout
              /\ now - start <= Ticks(cfg.session_timeout) + Ticks(timeout) + MaxLate
              /\ Sends => now - start <= Ticks(cfg.session_timeout)
              /\ (pc = "tx" /\ now - start > Ticks(cfg.session_timeout)) =>
                     pc' = "failed" /\ exc' = TimeoutError
              /\ (Received /\ pc' = "tx" /\ woke' = "none") =>
                     /\ now' = start
                     /\ deadline' = cfg.session_timeout
                     /\ phase' >= phase
       /\ (InHandshake /\ handle_rx' # handle_rx) =>
              now' = start /\ deadline' = cfg.session_timeout /\ phase' = 0]_vars

\* a call has returned after a data phase longer than the session deadline and
\* one retry window
C17_Witness ==
    /\ pc = "done"
    /\ exc = NoExc
    /\ phase + (rxstart - start) > Ticks(cfg.session_timeout) + Ticks(timeout)

\* a block number taken modulo 65536
Wrapped(n) == n % (LastBlock + 1)

\* C18: past block 65535 the block number wraps. The step in which write gets the
\* acknowledgement of block 65535, bytes or a closing empty block still to send,
\* builds the Data packet of block Wrapped(65535 + 1) and enters its txrx; read,
\* block 65535 accepted, accepts the Data packet numbered Wrapped(65535 + 1);
\* and neither call raises the packing failure.
C18_BlockNumbersWrap ==
    [][/\ (call = "write" /\ blocknum = LastBlock /\ Received /\ remote' = peer
              /\ rx' = parse_pkt(create_ack_pkt(LastBlock)) /\ ~WriteFinished(chunk)) =>
              /\ pc' = "tx"
              /\ parse_pkt(tx').op = DATA
              /\ parse_pkt(tx').blocknum = Wrapped(LastBlock + 1)
       /\ (call = "read" /\ blocknum = LastBlock /\ Received /\ remote' = peer
              /\ rx'.op = DATA /\ rx'.blocknum = Wrapped(LastBlock + 1)) =>
              accepted' = Append(accepted, rx')
       /\ exc'.cls # "struct.error"]_vars

\* the opcodes a reply predicate expects, Error apart
ExpectedOps(h) ==
    CASE h = "handle_read_connect" -> {OACK, DATA}
      [] h = "handle_write_connect" -> {OACK, ACK}
      [] h = "handle_data_rx" -> {DATA}
      [] h = "handle_data_tx" -> {ACK}

\* C19: a datagram received from the server's IP that decodes to an opcode the
\* step does not expect, Error apart, ends the call in that step with the
\* failure 'Unexpected packet' naming the opcode; the step sends nothing and
\* changes nothing of the session.
C19_UnexpectedOpcodeAborts ==
    [][(Received /\ remote'[1] = cfg.ip /\ rx' # ParseError /\ rx'.op # ERR
            /\ rx'.op \notin ExpectedOps(handle_rx)) =>
           /\ pc' = "failed"
           /\ exc' = Exc("TFTPClientError", "Unexpected packet", rx'.op, <<>>)
           /\ UNCHANGED <<self, buf, tx, handle_rx, txcount, lastSent>>]_vars

\* a read in its data phase has failed on a second Option-Acknowledgement
C19_Witness ==
    /\ call = "read"
    /\ handle_rx = "handle_data_rx"
    /\ pc = "failed"
    /\ rx.op = OACK
    /\ remote = peer
    /\ exc = Exc("TFTPClientError", "Unexpected packet", OACK, <<>>)

\* C20: a received datagram that comes from another IP, or after the handshake
\* from another address than the one the session is bound to, changes nothing of
\* the session, leaves the call in its exchange and raises nothing.
C20_OtherSourceIgnored ==
    [][(Received /\ (remote'[1] # cfg.ip \/ (peer # None /\ remote' # peer))) =>
           /\ pc' = "tx"
           /\ exc' = NoExc
           /\ UNCHANGED <<self, buf, chunk, tx, handle_rx, deadline, txcount, lastSent,
                          sentData, accepted, result>>]_vars

====
